---------------------------- MODULE Spec2Model ----------------------------
(***************************************************************************)
(* A model of the pose-estimation example: the pose classifier             *)
(* (classifier.py) and the display helpers (utils.py).                     *)
(*                                                                         *)
(* Number representation.  Scores, thresholds and probabilities are        *)
(* floats in the source; only their order and equality matter to the code  *)
(* modelled here, so they are integers in fixed-point units: a score or    *)
(* threshold s is the integer 100*s (0.1 is 10, 0.11 is 11, 0.05 is 5).    *)
(* A normalized coordinate c in [0,1] is the integer CoordDen*c, and an    *)
(* absolute coordinate produced by width*x is kept in the same units       *)
(* (1/CoordDen of a pixel).  numpy arrays indexed 0..16 are functions on   *)
(* 0..16; Python lists are sequences.  An optional value is a sequence of  *)
(* length at most one (<<>> is None).                                      *)
(***************************************************************************)
EXTENDS Integers, Sequences, FiniteSets, TLC

VARIABLES
    label_file,          \* contents of the label file, a sequence of characters
    pose_class_names,    \* Classifier.pose_class_names
    score_threshold,     \* Classifier.score_threshold
    interpreter,         \* Classifier._interpreter: the backend and its tensors
    call,                \* the last classify_pose call: its argument, return value, backend operations
    ref,                 \* an earlier classify_pose call kept for comparison
    constructed,         \* Classifier.__init__ has returned
    kws,                 \* keypoints_and_edges_for_display: keypoints_with_scores
    height,              \* keypoints_and_edges_for_display: height
    width,               \* keypoints_and_edges_for_display: width
    keypoint_threshold,  \* keypoint_threshold of either display function
    display_out,         \* keypoints_and_edges_for_display: the returned triple
    list_persons,        \* visualize: list_persons
    instance_threshold,  \* visualize: instance_threshold
    image,               \* visualize: the draw operations applied to the image, in order
    visualized,          \* visualize has returned
    shape,               \* keep_aspect_ratio_resizer: image.shape
    target_size,         \* keep_aspect_ratio_resizer: target_size
    resized              \* keep_aspect_ratio_resizer: the returned sizes

vars == <<label_file, pose_class_names, score_threshold, interpreter, call, ref, constructed,
          kws, height, width, keypoint_threshold, display_out,
          list_persons, instance_threshold, image, visualized,
          shape, target_size, resized>>

classifierVars == <<label_file, pose_class_names, score_threshold, interpreter, call, ref,
                    constructed>>
displayVars == <<kws, height, width, display_out>>
visualizeVars == <<list_persons, instance_threshold, image, visualized>>
resizerVars == <<shape, target_size, resized>>

(***************************************************************************)
(* Bounds of the model.                                                    *)
(***************************************************************************)
MaxFileLen == 4      \* longest label file, in characters
MaxProb == 2         \* backend probabilities are 0..MaxProb
MaxPattern == 4      \* keypoint score patterns 0..MaxPattern
MaxDeviants == 2     \* keypoints of a display array that depart from the base keypoint
MaxPersons == 2      \* longest list_persons
MaxSide == 4         \* largest image height and width
MaxTarget == 34      \* largest target_size besides the multiples of 32

(***************************************************************************)
(* Program constants.                                                      *)
(***************************************************************************)
NumKeypoints == 17
DefaultScoreThreshold == 10
DefaultDisplayThreshold == 11
DefaultKeypointThreshold == 5
DefaultInstanceThreshold == 10
PadMultiple == 32
CoordDen == 2

Joints == 0 .. (NumKeypoints - 1)

(***************************************************************************)
(* Generic sequence helpers.                                               *)
(***************************************************************************)
RECURSIVE SeqsUpTo(_, _)
SeqsUpTo(S, n) ==
    IF n = 0 THEN {<<>>}
    ELSE LET shorter == SeqsUpTo(S, n - 1)
         IN shorter \cup {Append(s, x) : s \in {t \in shorter : Len(t) = n - 1}, x \in S}

Reverse(s) == [i \in 1 .. Len(s) |-> s[Len(s) + 1 - i]]

RECURSIVE Concat(_)
Concat(ss) == IF ss = <<>> THEN <<>> ELSE Head(ss) \o Concat(Tail(ss))

(***************************************************************************)
(* classifier.py: Classifier._load_labels.                                 *)
(* A file is a sequence of one-character strings.                          *)
(***************************************************************************)
Chars == {"a", "b", " ", "\n"}
Whitespace == {" ", "\n"}

\* The index of the first newline of f, or Len(f) when it has none.
RECURSIVE LineEnd(_, _)
LineEnd(f, k) ==
    IF k >= Len(f) THEN Len(f)
    ELSE IF f[k] = "\n" THEN k ELSE LineEnd(f, k + 1)

\* f.readlines(): the lines of f, each with its newline.
RECURSIVE readlines(_)
readlines(f) ==
    IF f = <<>> THEN <<>>
    ELSE LET k == LineEnd(f, 1)
         IN <<SubSeq(f, 1, k)>> \o readlines(SubSeq(f, k + 1, Len(f)))

RECURSIVE lstrip(_)
lstrip(s) ==
    IF s # <<>> /\ Head(s) \in Whitespace THEN lstrip(Tail(s)) ELSE s

RECURSIVE rstrip(_)
rstrip(s) ==
    IF s # <<>> /\ s[Len(s)] \in Whitespace THEN rstrip(SubSeq(s, 1, Len(s) - 1)) ELSE s

\* A strip that leaves leading whitespace in place.
strip_trailing_only(line) == rstrip(line)

\* str.strip(): leading and trailing whitespace removed.
strip(line) == lstrip(rstrip(line))

\* [line.strip() for _, line in enumerate(f.readlines())]
load_labels(f) ==
    LET lines == readlines(f)
    IN [i \in 1 .. Len(lines) |-> strip(lines[i])]

(***************************************************************************)
(* Keypoint arrays.  A (17, 3) array is a function on 0..16 whose rows are *)
(* <<y, x, score>> (columns 0, 1, 2 of the source are positions 1, 2, 3).  *)
(* The inputs tried are patterns of scores around a threshold t: below     *)
(* (t - 1), exactly at (t) and above (t + 1).                              *)
(***************************************************************************)
Patterns == 0 .. MaxPattern

PatternScore(t, p, i) ==
    IF p = 0 THEN t + 1
    ELSE IF p = 1 THEN t
    ELSE IF p = 2 THEN t + (i % 2)
    ELSE t - 1 + ((i \div (p - 2)) % 3)

PatternArray(t, p) ==
    [i \in Joints |-> << (i + p) % (CoordDen + 1), (2 * i + p) % (CoordDen + 1),
                         PatternScore(t, p, i) >>]

(***************************************************************************)
(* classifier.py: the inference backend (the TFLite Interpreter).  It is   *)
(* external and deterministic: a function of its input tensor and of the   *)
(* loaded model, here a vector of weights, one per output.                 *)
(***************************************************************************)
RECURSIVE Checksum(_, _)
Checksum(t, n) == IF n = 0 THEN 0 ELSE (Checksum(t, n - 1) + n * t[n]) % (MaxProb + 1)

Zeros(n) == [i \in 1 .. n |-> 0]

\* Interpreter(model_path=...) and allocate_tensors(): tensors with a batch dimension of 1.
NewInterpreter(weights) ==
    [weights |-> weights,
     input |-> <<Zeros(3 * NumKeypoints)>>,
     output |-> <<Zeros(Len(weights))>>]

set_tensor(interp, tensor) == [interp EXCEPT !.input = tensor]

invoke(interp) ==
    LET c == Checksum(interp.input[1], Len(interp.input[1]))
    IN [interp EXCEPT !.output =
           << [k \in 1 .. Len(interp.weights) |->
                  (interp.weights[k] + k * c) % (MaxProb + 1)] >>]

get_tensor(interp) == interp.output

(***************************************************************************)
(* classifier.py: Classifier.__init__ and Classifier.classify_pose.        *)
(***************************************************************************)
ScoreThresholds == {DefaultScoreThreshold, 2 * DefaultScoreThreshold}

\* __init__: the fields of the new object.
NewClassifier(file, threshold, weights) ==
    [pose_class_names |-> load_labels(file),
     score_threshold |-> threshold,
     interpreter |-> NewInterpreter(weights)]

RECURSIVE MinOver(_, _)
MinOver(a, n) ==
    IF n = 0 THEN a[0][3]
    ELSE LET m == MinOver(a, n - 1) IN IF a[n][3] < m THEN a[n][3] ELSE m

RECURSIVE MaxOver(_, _)
MaxOver(a, n) ==
    IF n = 0 THEN a[0][3]
    ELSE LET m == MaxOver(a, n - 1) IN IF a[n][3] > m THEN a[n][3] ELSE m

\* The largest keypoint score instead of the smallest.
amax_scores(keypoints_and_scores) == MaxOver(keypoints_and_scores, NumKeypoints - 1)

\* np.amin(keypoints_and_scores[:, 2])
amin_scores(keypoints_and_scores) == MinOver(keypoints_and_scores, NumKeypoints - 1)

\* A comparison that also suppresses a pose whose minimum equals the threshold.
below_or_at_threshold(min_score, threshold) == min_score <= threshold

\* min_score < self.score_threshold
below_threshold(min_score, threshold) == min_score < threshold

\* keypoints_and_scores.flatten(): row by row, y, x, score of each joint.  The cast
\* astype(np.float32) rounds the values handed to the backend; it does not touch
\* the scores compared with the threshold nor the probabilities returned.
flatten(a) == [n \in 1 .. (3 * NumKeypoints) |-> a[(n - 1) \div 3][((n - 1) % 3) + 1]]

\* np.expand_dims(input_tensor, axis=0) and np.squeeze(output, axis=0)
expand_dims(v) == <<v>>
squeeze(t) == t[1]

\* Insert index k into idxs, sorted ascending by key, after every index whose key is
\* not larger: the step of a stable ascending sort.
RECURSIVE InsertAsc(_, _, _)
InsertAsc(idxs, k, key) ==
    IF idxs = <<>> THEN <<k>>
    ELSE IF key[Head(idxs) + 1] <= key[k + 1] THEN <<Head(idxs)>> \o InsertAsc(Tail(idxs), k, key)
    ELSE <<k>> \o idxs

RECURSIVE StableSortAsc(_, _)
StableSortAsc(idxs, key) ==
    IF idxs = <<>> THEN <<>>
    ELSE InsertAsc(StableSortAsc(SubSeq(idxs, 1, Len(idxs) - 1), key), idxs[Len(idxs)], key)

range(n) == [i \in 1 .. n |-> i - 1]

\* An ascending sort reversed afterwards: equal keys come out in reverse index order.
sorted_then_reversed(output) == Reverse(StableSortAsc(range(Len(output)), output))

\* A sort without reverse=True.
sorted_ascending(output) == StableSortAsc(range(Len(output)), output)

\* sorted(range(len(output)), key=lambda k: output[k], reverse=True).  list.sort
\* keeps a reversed sort stable by reversing the list, sorting it ascending and
\* reversing the result.
prob_descending(output) == Reverse(StableSortAsc(Reverse(range(Len(output))), output))

\* The output tensor read before invoke() has run for this input.
run_inference_read_first(interp, input_tensor) ==
    LET set == set_tensor(interp, input_tensor)
    IN [interpreter |-> invoke(set),
        output |-> squeeze(get_tensor(set)),
        ops |-> <<"set_tensor", "get_tensor", "invoke">>]

\* set_tensor, invoke, get_tensor, squeeze (lines 94 to 99).
run_inference(interp, input_tensor) ==
    LET set == set_tensor(interp, input_tensor)
        ran == invoke(set)
    IN [interpreter |-> ran,
        output |-> squeeze(get_tensor(ran)),
        ops |-> <<"set_tensor", "invoke", "get_tensor">>]

\* classify_pose: the returned list, the interpreter afterwards, and the backend
\* operations performed, in order.
classify_pose(names, threshold, interp, keypoints_and_scores) ==
    LET min_score == amin_scores(keypoints_and_scores)
    IN IF below_threshold(min_score, threshold)
       THEN [ret |-> [i \in 1 .. Len(names) |-> <<names[i], 0>>],
             interpreter |-> interp,
             ops |-> <<>>]
       ELSE LET input_tensor == expand_dims(flatten(keypoints_and_scores))
                inf == run_inference(interp, input_tensor)
                order == prob_descending(inf.output)
            IN [ret |-> [n \in 1 .. Len(order) |->
                            <<names[order[n] + 1], inf.output[order[n] + 1]>>],
                interpreter |-> inf.interpreter,
                ops |-> inf.ops]

(***************************************************************************)
(* utils.py: KEYPOINT_EDGE_INDS_TO_COLOR, in the order the dict lists its  *)
(* items.                                                                  *)
(***************************************************************************)
Magenta == <<147, 20, 255>>
Cyan == <<255, 255, 0>>
Yellow == <<0, 255, 255>>

KEYPOINT_EDGE_INDS_TO_COLOR ==
    << <<<<0, 1>>, Magenta>>,   <<<<0, 2>>, Cyan>>,      <<<<1, 3>>, Magenta>>,
       <<<<2, 4>>, Cyan>>,      <<<<0, 5>>, Magenta>>,   <<<<0, 6>>, Cyan>>,
       <<<<5, 7>>, Magenta>>,   <<<<7, 9>>, Magenta>>,   <<<<6, 8>>, Cyan>>,
       <<<<8, 10>>, Cyan>>,     <<<<5, 6>>, Yellow>>,    <<<<5, 11>>, Magenta>>,
       <<<<6, 12>>, Cyan>>,     <<<<11, 12>>, Yellow>>,  <<<<11, 13>>, Magenta>>,
       <<<<13, 15>>, Magenta>>, <<<<12, 14>>, Cyan>>,    <<<<14, 16>>, Cyan>> >>

NumEdges == Len(KEYPOINT_EDGE_INDS_TO_COLOR)

(***************************************************************************)
(* utils.py: keypoints_and_edges_for_display.                              *)
(***************************************************************************)
\* Width and height exchanged.
kpts_absolute_yx(a, h, w) == [i \in Joints |-> <<h * a[i][2], w * a[i][1]>>]

\* np.stack([width * kpts_x, height * kpts_y], axis=-1)
kpts_absolute_xy(a, h, w) == [i \in Joints |-> <<w * a[i][2], h * a[i][1]>>]

\* A mask that also keeps a keypoint whose score equals the threshold.
mask_at_or_above(a, threshold) == [i \in Joints |-> a[i][3] >= threshold]

\* kpts_scores > keypoint_threshold
mask_above(a, threshold) == [i \in Joints |-> a[i][3] > threshold]

\* absolute[mask]: the rows whose mask is true, in index order.
RECURSIVE MaskedRows(_, _, _)
MaskedRows(absolute, mask, n) ==
    IF n < 0 THEN <<>>
    ELSE MaskedRows(absolute, mask, n - 1) \o (IF mask[n] THEN <<absolute[n]>> ELSE <<>>)

\* An edge kept when either endpoint is above the threshold.
display_edge_passes_either(a, edge_pair, threshold) ==
    a[edge_pair[1]][3] > threshold \/ a[edge_pair[2]][3] > threshold

\* kpts_scores[edge_pair[0]] > keypoint_threshold and
\* kpts_scores[edge_pair[1]] > keypoint_threshold
display_edge_passes(a, edge_pair, threshold) ==
    a[edge_pair[1]][3] > threshold /\ a[edge_pair[2]][3] > threshold

\* The loop over KEYPOINT_EDGE_INDS_TO_COLOR.items(): the first n items.
RECURSIVE DisplayEdges(_, _, _, _)
DisplayEdges(a, absolute, threshold, n) ==
    IF n = 0 THEN [keypoint_edges_all |-> <<>>, edge_colors |-> <<>>]
    ELSE LET before == DisplayEdges(a, absolute, threshold, n - 1)
             edge_pair == KEYPOINT_EDGE_INDS_TO_COLOR[n][1]
             color == KEYPOINT_EDGE_INDS_TO_COLOR[n][2]
         IN IF display_edge_passes(a, edge_pair, threshold)
            THEN [keypoint_edges_all |->
                      Append(before.keypoint_edges_all,
                             <<absolute[edge_pair[1]], absolute[edge_pair[2]]>>),
                  edge_colors |-> Append(before.edge_colors, color)]
            ELSE before

keypoints_and_edges_for_display(keypoints_with_scores, h, w, threshold) ==
    LET absolute == kpts_absolute_xy(keypoints_with_scores, h, w)
        kpts_above_thresh_absolute ==
            MaskedRows(absolute, mask_above(keypoints_with_scores, threshold),
                       NumKeypoints - 1)
        keypoints_all == <<kpts_above_thresh_absolute>>
        edges == DisplayEdges(keypoints_with_scores, absolute, threshold, NumEdges)
    IN [keypoints_xy |-> IF keypoints_all # <<>> THEN Concat(keypoints_all) ELSE <<>>,
        edges_xy |-> edges.keypoint_edges_all,
        edge_colors |-> edges.edge_colors]

(***************************************************************************)
(* Inputs of keypoints_and_edges_for_display: every joint has the base     *)
(* score except the joints of a set of at most MaxDeviants, which have     *)
(* another.                                                                *)
(***************************************************************************)
AroundThreshold(t) == {t - 1, t, t + 1}

JointSets == {D \in SUBSET Joints : Cardinality(D) <= MaxDeviants}

DeviantArray(base, dev, D) ==
    [i \in Joints |-> << i % (CoordDen + 1), (i \div (CoordDen + 1)) % (CoordDen + 1),
                         IF i \in D THEN dev ELSE base >>]

ImageSizes == { <<480, 640>>, <<3, 2>> }

(***************************************************************************)
(* utils.py: visualize.  The image is the sequence of cv2 draw operations  *)
(* applied to it: <<"circle", center, radius, color, thickness>>,          *)
(* <<"line", pt1, pt2, color, thickness>> and                              *)
(* <<"rectangle", pt1, pt2, color, thickness>>.                            *)
(***************************************************************************)
DefaultKeypointColor == <<0, 255, 0>>

\* The person's score compared with the keypoint threshold.
person_skipped_by_keypoint_threshold(person, kp_threshold, inst_threshold) ==
    person.score < kp_threshold

\* person.score < instance_threshold
person_skipped(person, kp_threshold, inst_threshold) ==
    person.score < inst_threshold

\* A landmark drawn only when its score is strictly above the threshold.
landmark_passes_strict(keypoint, threshold) == keypoint.score > threshold

\* keypoints[i].score >= keypoint_threshold
landmark_passes(keypoint, threshold) == keypoint.score >= threshold

\* keypoints[edge_pair[0]].score > keypoint_threshold and
\* keypoints[edge_pair[1]].score > keypoint_threshold
visualize_edge_passes(keypoints, edge_pair, threshold) ==
    keypoints[edge_pair[1]].score > threshold /\ keypoints[edge_pair[2]].score > threshold

\* for i in range(len(keypoints)): the circles drawn for keypoints 0..n, in order.
RECURSIVE DrawLandmarks(_, _, _, _)
DrawLandmarks(keypoints, threshold, color, n) ==
    IF n < 0 THEN <<>>
    ELSE LET before == DrawLandmarks(keypoints, threshold, color, n - 1)
         IN IF landmark_passes(keypoints[n], threshold)
            THEN Append(before, <<"circle", keypoints[n].coordinate, 2, color, 4>>)
            ELSE before

\* for edge_pair, color in KEYPOINT_EDGE_INDS_TO_COLOR.items(): the lines drawn for
\* the first n items, in order.
RECURSIVE DrawEdges(_, _, _)
DrawEdges(keypoints, threshold, n) ==
    IF n = 0 THEN <<>>
    ELSE LET before == DrawEdges(keypoints, threshold, n - 1)
             edge_pair == KEYPOINT_EDGE_INDS_TO_COLOR[n][1]
             color == KEYPOINT_EDGE_INDS_TO_COLOR[n][2]
         IN IF visualize_edge_passes(keypoints, edge_pair, threshold)
            THEN Append(before, <<"line", keypoints[edge_pair[1]].coordinate,
                                  keypoints[edge_pair[2]].coordinate, color, 2>>)
            ELSE before

\* if bounding_box is not None: cv2.rectangle(...)
DrawBoundingBox(bounding_box, color) ==
    IF bounding_box # <<>>
    THEN << <<"rectangle", bounding_box[1].start_point, bounding_box[1].end_point,
              color, 1>> >>
    ELSE <<>>

\* One iteration of the loop over list_persons: the operations it draws, in order.
DrawPerson(person, kp_threshold, inst_threshold, color) ==
    IF person_skipped(person, kp_threshold, inst_threshold) THEN <<>>
    ELSE DrawLandmarks(person.keypoints, kp_threshold, color, NumKeypoints - 1)
         \o DrawEdges(person.keypoints, kp_threshold, NumEdges)
         \o DrawBoundingBox(person.bounding_box, color)

\* visualize: the image with the operations of every iteration drawn onto it.
visualize(img, persons, kp_threshold, inst_threshold, color) ==
    img \o Concat([k \in 1 .. Len(persons) |->
                      DrawPerson(persons[k], kp_threshold, inst_threshold, color)])

(***************************************************************************)
(* Inputs of visualize: persons whose detection score is around the        *)
(* instance threshold, whose keypoint scores follow a pattern around the   *)
(* keypoint threshold, with and without a bounding box.                    *)
(***************************************************************************)
PersonKeypoints(t, p) ==
    [i \in Joints |-> [coordinate |-> <<10 * p + i, 20 * p + ((2 * i) % NumKeypoints)>>,
                       score |-> PatternScore(t, p, i)]]

BoundingBoxes == { <<>>, << [start_point |-> <<1, 2>>, end_point |-> <<41, 52>>] >> }

Persons(kp_threshold, inst_threshold) ==
    { [score |-> sc, keypoints |-> PersonKeypoints(kp_threshold, p), bounding_box |-> box] :
          sc \in AroundThreshold(inst_threshold), p \in Patterns, box \in BoundingBoxes }

(***************************************************************************)
(* Idle values of the variables a specification does not use.              *)
(***************************************************************************)
ClassifierIdle ==
    /\ label_file = <<>>
    /\ pose_class_names = <<>>
    /\ score_threshold = 0
    /\ interpreter = NewInterpreter(<<>>)
    /\ call = <<>>
    /\ ref = <<>>
    /\ constructed = FALSE

DisplayIdle ==
    /\ kws = <<>>
    /\ height = 0
    /\ width = 0
    /\ display_out = <<>>

VisualizeIdle ==
    /\ list_persons = <<>>
    /\ instance_threshold = 0
    /\ image = <<>>
    /\ visualized = FALSE

ResizerIdle ==
    /\ shape = <<>>
    /\ target_size = 0
    /\ resized = <<>>

(***************************************************************************)
(* The label file read by the constructor.                                 *)
(***************************************************************************)
LabelFiles == SeqsUpTo(Chars, MaxFileLen)

InitLabels ==
    /\ label_file \in LabelFiles
    /\ pose_class_names = <<>>
    /\ score_threshold = 0
    /\ interpreter = NewInterpreter(<<>>)
    /\ call = <<>>
    /\ ref = <<>>
    /\ constructed = FALSE
    /\ keypoint_threshold = 0
    /\ DisplayIdle /\ VisualizeIdle /\ ResizerIdle

\* Classifier(model_name, label_file, score_threshold)
ClassifierInit ==
    /\ ~constructed
    /\ \E threshold \in ScoreThresholds :
          LET self == NewClassifier(label_file, threshold,
                                    Zeros(Len(load_labels(label_file))))
          IN /\ pose_class_names' = self.pose_class_names
             /\ score_threshold' = self.score_threshold
             /\ interpreter' = self.interpreter
    /\ constructed' = TRUE
    /\ UNCHANGED <<label_file, call, ref, keypoint_threshold>>
    /\ UNCHANGED <<displayVars, visualizeVars, resizerVars>>

NextLabels == ClassifierInit

SpecLabels == InitLabels /\ [][NextLabels]_vars

(***************************************************************************)
(* The classifier after construction, and its calls.                       *)
(***************************************************************************)
ClassifierLabelFiles ==
    { <<"a", "\n">>,
      <<"a", "\n", "b", "\n">>,
      <<"a", "\n", "b", "\n", "a", "b">> }

InitClassifier ==
    /\ label_file \in ClassifierLabelFiles
    /\ \E threshold \in ScoreThresholds :
       \E weights \in [1 .. Len(load_labels(label_file)) -> 0 .. MaxProb] :
          LET self == NewClassifier(label_file, threshold, weights)
          IN /\ pose_class_names = self.pose_class_names
             /\ score_threshold = self.score_threshold
             /\ interpreter = self.interpreter
    /\ call = <<>>
    /\ ref = <<>>
    /\ constructed = TRUE
    /\ keypoint_threshold = 0
    /\ DisplayIdle /\ VisualizeIdle /\ ResizerIdle

\* classifier.classify_pose(keypoints_and_scores); the observer keeps either the
\* earlier call it already holds or the call made just before this one.
ClassifyPose(keypoints_and_scores) ==
    /\ constructed
    /\ LET r == classify_pose(pose_class_names, score_threshold, interpreter,
                              keypoints_and_scores)
       IN /\ interpreter' = r.interpreter
          /\ call' = << [arg |-> keypoints_and_scores, ret |-> r.ret, ops |-> r.ops] >>
    /\ \/ ref' = ref
       \/ ref' = call
    /\ UNCHANGED <<label_file, pose_class_names, score_threshold, constructed,
                   keypoint_threshold>>
    /\ UNCHANGED <<displayVars, visualizeVars, resizerVars>>

NextClassifier ==
    \E p \in Patterns : ClassifyPose(PatternArray(score_threshold, p))

SpecClassifier == InitClassifier /\ [][NextClassifier]_vars

(***************************************************************************)
(* The two display functions, each called once on its inputs.              *)
(***************************************************************************)
InitDisplay ==
    /\ keypoint_threshold = DefaultDisplayThreshold
    /\ \E base \in AroundThreshold(keypoint_threshold) :
       \E dev \in AroundThreshold(keypoint_threshold) :
       \E D \in JointSets :
          kws = <<DeviantArray(base, dev, D)>>
    /\ \E size \in ImageSizes : height = size[1] /\ width = size[2]
    /\ display_out = <<>>
    /\ VisualizeIdle

InitVisualize ==
    /\ keypoint_threshold = DefaultKeypointThreshold
    /\ instance_threshold = DefaultInstanceThreshold
    /\ list_persons \in SeqsUpTo(Persons(keypoint_threshold, instance_threshold), MaxPersons)
    /\ image = <<>>
    /\ visualized = FALSE
    /\ DisplayIdle

InitRender ==
    /\ ClassifierIdle
    /\ ResizerIdle
    /\ \/ InitDisplay
       \/ InitVisualize

\* keypoints_and_edges_for_display(keypoints_with_scores, height, width, keypoint_threshold)
KeypointsAndEdgesForDisplay ==
    /\ kws # <<>>
    /\ display_out = <<>>
    /\ display_out' = << keypoints_and_edges_for_display(kws[1], height, width,
                                                        keypoint_threshold) >>
    /\ UNCHANGED <<kws, height, width, keypoint_threshold>>
    /\ UNCHANGED <<classifierVars, visualizeVars, resizerVars>>

\* visualize(image, list_persons, keypoint_threshold, instance_threshold)
Visualize ==
    /\ instance_threshold # 0
    /\ ~visualized
    /\ image' = visualize(image, list_persons, keypoint_threshold, instance_threshold,
                          DefaultKeypointColor)
    /\ visualized' = TRUE
    /\ UNCHANGED <<list_persons, instance_threshold, keypoint_threshold>>
    /\ UNCHANGED <<classifierVars, displayVars, resizerVars>>

NextRender == KeypointsAndEdgesForDisplay \/ Visualize

SpecRender == InitRender /\ [][NextRender]_vars

(***************************************************************************)
(* utils.py: keep_aspect_ratio_resizer.  The image is its shape            *)
(* <<height, width>>.  scale is a float in the source; width * scale is    *)
(* computed here exactly, as width * target_size / height, which is what   *)
(* the float computation rounds up to for the sizes tried.                 *)
(***************************************************************************)
\* math.ceil(a / b) for positive b
CeilDiv(a, b) == (a + b - 1) \div b

keep_aspect_ratio_resizer(image_shape, size) ==
    LET h == image_shape[1]
        w == image_shape[2]
    IN IF h > w
       THEN LET target_height == size
                scaled_width == CeilDiv(w * size, h)
                resized_shape == <<target_height, scaled_width>>
                target_width == CeilDiv(scaled_width, PadMultiple) * PadMultiple
                padding_bottom == target_height - resized_shape[1]
                padding_right == target_width - resized_shape[2]
            IN [image |-> <<resized_shape[1] + padding_bottom, resized_shape[2] + padding_right>>,
                target_height |-> target_height,
                target_width |-> target_width]
       ELSE LET target_width == size
                scaled_height == CeilDiv(h * size, w)
                resized_shape == <<scaled_height, target_width>>
                target_height == CeilDiv(scaled_height, PadMultiple) * PadMultiple
                padding_bottom == target_height - resized_shape[1]
                padding_right == target_width - resized_shape[2]
            IN [image |-> <<resized_shape[1] + padding_bottom, resized_shape[2] + padding_right>>,
                target_height |-> target_height,
                target_width |-> target_width]

TargetSizes == (1 .. MaxTarget) \cup {PadMultiple, 2 * PadMultiple}

InitResizer ==
    /\ shape \in (1 .. MaxSide) \X (1 .. MaxSide)
    /\ target_size \in TargetSizes
    /\ resized = <<>>
    /\ keypoint_threshold = 0
    /\ ClassifierIdle /\ DisplayIdle /\ VisualizeIdle

\* keep_aspect_ratio_resizer(image, target_size)
KeepAspectRatioResizer ==
    /\ shape # <<>>
    /\ resized = <<>>
    /\ resized' = << keep_aspect_ratio_resizer(shape, target_size) >>
    /\ UNCHANGED <<shape, target_size, keypoint_threshold>>
    /\ UNCHANGED <<classifierVars, displayVars, visualizeVars>>

NextResizer == KeepAspectRatioResizer

SpecResizer == InitResizer /\ [][NextResizer]_vars

(***************************************************************************)
(* Claims about the classifier (checked under SpecClassifier).             *)
(***************************************************************************)
Called == call # <<>>
LastCall == call[1]
SomeScoreBelow(c) == \E i \in Joints : c.arg[i][3] < score_threshold
AllScoresAtLeast(c) == \A i \in Joints : c.arg[i][3] >= score_threshold
\* The backend's output tensor, batch dimension removed.
BackendOutput == interpreter.output[1]
InferenceOps == <<"set_tensor", "invoke", "get_tensor">>
Injections(n) == {f \in [1 .. n -> 1 .. n] : \A a, b \in 1 .. n : f[a] = f[b] => a = b}

\* C1: when some keypoint score is strictly below score_threshold, classify_pose
\* returns one pair per label, the i-th being (labels[i], 0), and performs no
\* backend operation (no set_tensor, invoke or get_tensor) during the call.
C1_ShortCircuit ==
    (Called /\ SomeScoreBelow(LastCall)) =>
        /\ Len(LastCall.ret) = Len(pose_class_names)
        /\ \A i \in 1 .. Len(pose_class_names) : LastCall.ret[i] = <<pose_class_names[i], 0>>
        /\ LastCall.ops = <<>>

C1_Witness ==
    /\ Called
    /\ SomeScoreBelow(LastCall)
    /\ \E i \in Joints : LastCall.arg[i][3] > score_threshold
    /\ Len(pose_class_names) >= 2
    /\ LastCall.ops = <<>>
    /\ \E k \in 1 .. Len(BackendOutput) : BackendOutput[k] # 0

\* C2: when every keypoint score is >= score_threshold (the minimum may equal
\* it), classify_pose runs the backend and returns a permutation of the pairs
\* (labels[i], output[i]) whose probabilities, exactly those of the backend's
\* output tensor, are non-increasing from first to last.
C2_SortedPermutation ==
    (Called /\ AllScoresAtLeast(LastCall)) =>
        LET n == Len(pose_class_names)
            ret == LastCall.ret
        IN /\ LastCall.ops = InferenceOps
           /\ Len(ret) = n
           /\ \E f \in Injections(n) :
                 \A k \in 1 .. n : ret[k] = <<pose_class_names[f[k]], BackendOutput[f[k]]>>
           /\ \A k \in 1 .. (n - 1) : ret[k][2] >= ret[k + 1][2]

C2_Witness ==
    /\ Called
    /\ \A i \in Joints : LastCall.arg[i][3] = score_threshold
    /\ Len(pose_class_names) >= 3
    /\ BackendOutput[1] < BackendOutput[2]
    /\ BackendOutput[2] < BackendOutput[3]
    /\ LastCall.ret[1] = <<pose_class_names[3], BackendOutput[3]>>

\* C3: when classify_pose runs inference and labels i < j get equal
\* probabilities, the pair of label i comes before the pair of label j.
C3_StableTies ==
    (Called /\ AllScoresAtLeast(LastCall)) =>
        \A i, j \in 1 .. Len(pose_class_names) :
            (i < j /\ BackendOutput[i] = BackendOutput[j]) =>
                \E a, b \in 1 .. Len(LastCall.ret) :
                    /\ a < b
                    /\ LastCall.ret[a] = <<pose_class_names[i], BackendOutput[i]>>
                    /\ LastCall.ret[b] = <<pose_class_names[j], BackendOutput[j]>>

C3_Witness ==
    /\ Called
    /\ AllScoresAtLeast(LastCall)
    /\ Len(pose_class_names) >= 3
    /\ BackendOutput[1] = BackendOutput[3]
    /\ BackendOutput[2] > BackendOutput[1]
    /\ LastCall.ret[2][1] = pose_class_names[1]
    /\ LastCall.ret[3][1] = pose_class_names[3]

\* C4: two classify_pose calls with the same keypoints return the same list,
\* whatever calls were made before or between them, and no call changes the
\* label list or the score threshold.
C4_SameInputSameOutput ==
    /\ [](\A c \in {call[k] : k \in 1 .. Len(call)} :
          \A r \in {ref[k] : k \in 1 .. Len(ref)} :
             c.arg = r.arg => c.ret = r.ret)
    /\ [][pose_class_names' = pose_class_names /\ score_threshold' = score_threshold]_vars

\* Two different calls with the same input, both running inference.
C4_Witness ==
    /\ Called
    /\ ref # <<>>
    /\ ref[1].arg = LastCall.arg
    /\ LastCall.ops = InferenceOps
    /\ Len(pose_class_names) >= 2
    /\ \E k \in 1 .. Len(LastCall.ret) : LastCall.ret[k][2] # 0

(***************************************************************************)
(* Claims about the label list (checked under SpecLabels).                 *)
(***************************************************************************)
FileLines == readlines(label_file)
NumNewlines(f) == Cardinality({k \in 1 .. Len(f) : f[k] = "\n"})
\* The lines of a file: one per newline, and one more for a last line without newline.
NumLines(f) == NumNewlines(f) + (IF f # <<>> /\ f[Len(f)] # "\n" THEN 1 ELSE 0)
AllWhitespace(s) == \A k \in 1 .. Len(s) : s[k] \in Whitespace
NonEmptyLinesRightStripped(f) ==
    LET lines == readlines(f)
    IN SelectSeq([i \in 1 .. Len(lines) |-> rstrip(lines[i])], LAMBDA l : l # <<>>)

\* C9 as stated: the label list is exactly the non-empty lines of the label
\* source, each with its trailing whitespace stripped, in order; a blank line
\* produces no label.
C9_NonEmptyLinesOnly ==
    constructed => pose_class_names = NonEmptyLinesRightStripped(label_file)

\* C9 as amended: the label list has exactly one entry per line of the label
\* source, in order, blank lines included (a blank line gives the empty label),
\* and each entry is its line with leading and trailing whitespace removed.
C9_OneLabelPerLine ==
    constructed =>
        /\ Len(pose_class_names) = NumLines(label_file)
        /\ Len(FileLines) = NumLines(label_file)
        /\ Concat(FileLines) = label_file
        /\ \A i \in 1 .. Len(pose_class_names) :
              LET line == FileLines[i]
                  name == pose_class_names[i]
              IN /\ name # <<>> => (name[1] \notin Whitespace /\ name[Len(name)] \notin Whitespace)
                 /\ \E a, b \in 0 .. Len(line) :
                       /\ a + b <= Len(line)
                       /\ AllWhitespace(SubSeq(line, 1, a))
                       /\ AllWhitespace(SubSeq(line, Len(line) - b + 1, Len(line)))
                       /\ name = SubSeq(line, a + 1, Len(line) - b)

\* A file with a blank line, which gave an empty label, and a line with leading
\* whitespace, which was removed.
C9_Witness ==
    /\ constructed
    /\ \E i \in 1 .. Len(pose_class_names) : pose_class_names[i] = <<>>
    /\ \E j \in 1 .. Len(pose_class_names) :
          /\ FileLines[j][1] = " "
          /\ pose_class_names[j] # <<>>
          /\ pose_class_names[j][1] # " "

(***************************************************************************)
(* Claims about the display functions (checked under SpecRender).          *)
(***************************************************************************)
\* The k-th smallest member of a set of numbers, and the members in increasing order.
Nth(S, k) == CHOOSE i \in S : Cardinality({j \in S : j < i}) = k - 1
InOrder(S) == [k \in 1 .. Cardinality(S) |-> Nth(S, k)]
OpsOfKind(img, kind) == SelectSeq(img, LAMBDA op : op[1] = kind)

Displayed == display_out # <<>>
DisplayIn == kws[1]
DisplayOut == display_out[1]
\* The point (x * width, y * height) of joint i.
AbsolutePoint(i) == <<DisplayIn[i][2] * width, DisplayIn[i][1] * height>>
VisibleJoints == {i \in Joints : DisplayIn[i][3] > keypoint_threshold}
DisplayEdgesShown ==
    {n \in 1 .. NumEdges :
        /\ DisplayIn[KEYPOINT_EDGE_INDS_TO_COLOR[n][1][1]][3] > keypoint_threshold
        /\ DisplayIn[KEYPOINT_EDGE_INDS_TO_COLOR[n][1][2]][3] > keypoint_threshold}

Drawn == visualized
PersonPasses(person) == ~(person.score < instance_threshold)
LandmarkJoints(person) == {i \in Joints : person.keypoints[i].score >= keypoint_threshold}
PersonEdgesShown(person) ==
    {n \in 1 .. NumEdges :
        /\ person.keypoints[KEYPOINT_EDGE_INDS_TO_COLOR[n][1][1]].score > keypoint_threshold
        /\ person.keypoints[KEYPOINT_EDGE_INDS_TO_COLOR[n][1][2]].score > keypoint_threshold}
ExpectedCircles(person) ==
    LET joints == InOrder(LandmarkJoints(person))
    IN [k \in 1 .. Len(joints) |->
           <<"circle", person.keypoints[joints[k]].coordinate, 2, DefaultKeypointColor, 4>>]
ExpectedLines(person) ==
    LET shown == InOrder(PersonEdgesShown(person))
    IN [k \in 1 .. Len(shown) |->
           LET item == KEYPOINT_EDGE_INDS_TO_COLOR[shown[k]]
           IN <<"line", person.keypoints[item[1][1]].coordinate,
                person.keypoints[item[1][2]].coordinate, item[2], 2>>]
OfPassingPersons(Expected(_)) ==
    Concat([k \in 1 .. Len(list_persons) |->
               IF PersonPasses(list_persons[k]) THEN Expected(list_persons[k]) ELSE <<>>])

\* C6: in visualize, for every person whose score is not below
\* instance_threshold, a circle is drawn for keypoint i exactly when its score is
\* >= keypoint_threshold, a score equal to the threshold included: the circles
\* on the image are those, person by person and joint by joint.
C6_LandmarksInclusive ==
    Drawn => OpsOfKind(image, "circle") = OfPassingPersons(ExpectedCircles)

\* A drawn person all of whose keypoints score exactly the threshold: 17 circles
\* and no line.
C6_Witness ==
    /\ Drawn
    /\ Len(list_persons) = 1
    /\ PersonPasses(list_persons[1])
    /\ \A i \in Joints : list_persons[1].keypoints[i].score = keypoint_threshold
    /\ Len(OpsOfKind(image, "circle")) = NumKeypoints
    /\ OpsOfKind(image, "line") = <<>>

RemoveAt(seq, k) == SubSeq(seq, 1, k - 1) \o SubSeq(seq, k + 1, Len(seq))

\* C7: a person whose score is strictly below instance_threshold contributes no
\* draw operation, whatever its keypoint scores and bounding box: the image is
\* the one drawn for the list without that person, and is left as it was when
\* every person is below the threshold.
C7_SkippedPerson ==
    Drawn =>
        /\ \A k \in 1 .. Len(list_persons) :
              list_persons[k].score < instance_threshold =>
                  image = visualize(<<>>, RemoveAt(list_persons, k), keypoint_threshold,
                                    instance_threshold, DefaultKeypointColor)
        /\ (\A k \in 1 .. Len(list_persons) : list_persons[k].score < instance_threshold)
              => image = <<>>

\* A skipped person with high keypoint scores and a bounding box, listed before a
\* person that is drawn.
C7_Witness ==
    /\ Drawn
    /\ Len(list_persons) = 2
    /\ list_persons[1].score < instance_threshold
    /\ list_persons[1].bounding_box # <<>>
    /\ \A i \in Joints : list_persons[1].keypoints[i].score > keypoint_threshold
    /\ PersonPasses(list_persons[2])
    /\ image # <<>>

\* C8: in both functions each of the 18 edges (a, b) is emitted exactly when the
\* scores of joints a and b are both strictly greater than the threshold, with
\* the coordinates of a and b and the edge's color from the table; the edges and
\* colors returned by keypoints_and_edges_for_display correspond position by
\* position and have equal length.
C8_EdgesBothEndpoints ==
    /\ Displayed =>
          LET shown == InOrder(DisplayEdgesShown)
          IN /\ Len(DisplayOut.edges_xy) = Len(shown)
             /\ Len(DisplayOut.edge_colors) = Len(DisplayOut.edges_xy)
             /\ \A k \in 1 .. Len(shown) :
                   LET item == KEYPOINT_EDGE_INDS_TO_COLOR[shown[k]]
                   IN /\ DisplayOut.edges_xy[k] =
                            <<AbsolutePoint(item[1][1]), AbsolutePoint(item[1][2])>>
                      /\ DisplayOut.edge_colors[k] = item[2]
    /\ Drawn => OpsOfKind(image, "line") = OfPassingPersons(ExpectedLines)

\* An array in which an edge has one endpoint exactly at the threshold and is left
\* out while other edges are returned.
C8_Witness ==
    /\ Displayed
    /\ DisplayIn[5][3] = keypoint_threshold
    /\ DisplayIn[6][3] > keypoint_threshold
    /\ DisplayIn[0][3] > keypoint_threshold
    /\ Len(DisplayOut.edges_xy) = NumEdges - 4
    /\ DisplayOut.edge_colors[5] = Cyan

(***************************************************************************)
(* Claims about the resizer (checked under SpecResizer).                   *)
(***************************************************************************)
\* C10: for every image of positive height and width and every positive
\* target_size, the returned target_height and target_width are both multiples
\* of 32 and the one of the image's longer side equals target_size.
C10_MultiplesOf32 ==
    resized # <<>> =>
        /\ resized[1].target_height % PadMultiple = 0
        /\ resized[1].target_width % PadMultiple = 0
        /\ shape[1] > shape[2] => resized[1].target_height = target_size
        /\ shape[2] > shape[1] => resized[1].target_width = target_size
        /\ shape[1] = shape[2] =>
              (resized[1].target_height = target_size \/ resized[1].target_width = target_size)

============================================================================
